---- MODULE Spec2Model ----
(***************************************************************************)
(* A model of src/main.go: the Lexer (Lex, readNumber, readIdentifier,     *)
(* readSymbol, emitToken) and the recursive-descent Parser (Parse,         *)
(* advance, statement, assignmentStatement, expression, term, factor,      *)
(* error), run by main on one line of input.                               *)
(*                                                                         *)
(* A Go string is a sequence of bytes, and the Lexer indexes it by byte:   *)
(* rune(l.input[l.pos]) turns ONE byte into the code point of the same     *)
(* number (U+0000..U+00FF).  The input is therefore a sequence of byte     *)
(* values 0..255, and the character classes are those of package unicode   *)
(* restricted to U+0000..U+00FF.                                           *)
(*                                                                         *)
(* float64 values are modelled by exact rationals [n, d] (d = 0 stands for *)
(* the infinities and NaN); binary rounding is not modelled.               *)
(***************************************************************************)
EXTENDS Integers, Sequences, FiniteSets, TLC

VARIABLES
    code,     \* main: the line read from stdin, a sequence of bytes
    l,        \* the Lexer struct: input, pos, tokens
    spans,    \* for each emitted token, the slice bounds [start, end) of input[start:l.pos]
    reads,    \* the byte indices l.input[...] was read at during the last iteration of Lex's loop
    rets,     \* the token sequences returned by the calls of Lex so far, in order
    p,        \* the Parser struct: tokens, current, pos
    out,      \* standard output: the lines printed so far (the first MaxOut of them)
    pc        \* where main is: "Lex", "Lexed", "loop", "statement", "done"

vars == <<code, l, spans, reads, rets, p, out, pc>>

----------------------------------------------------------------------------
(* Bounds *)

\* Inputs of every length up to MaxLen over Alphabet are explored (plus Examples).
MaxLen == 3

\* How many times Lex is called on the same Lexer in SpecReLex.
MaxCalls == 2

\* The lines of standard output that are kept; later lines are dropped.  A run of
\* Parse that returns prints fewer than MaxOut lines (TerminatedOutputComplete).
MaxOut == 2 * MaxLen + 2

----------------------------------------------------------------------------
(* Bytes and character classes *)

Dot == 46
Underscore == 95

\* '+', '-', '*', '/', '(', ')', '{', '}', '=', ';'
SymbolBytes == {43, 45, 42, 47, 40, 41, 123, 125, 61, 59}

\* unicode.IsSpace on U+0000..U+00FF: \t \n \v \f \r, space, U+0085, U+00A0
IsSpace(c) == c \in {9, 10, 11, 12, 13, 32, 133, 160}

\* unicode.IsDigit on U+0000..U+00FF: '0'..'9'
IsDigit(c) == c \in 48..57

\* unicode.IsLetter on U+0000..U+00FF: A-Z, a-z, U+00AA, U+00B5, U+00BA,
\* U+00C0..U+00D6, U+00D8..U+00F6, U+00F8..U+00FF
IsLetter(c) ==
    c \in (65..90) \cup (97..122) \cup {170, 181, 186}
          \cup (192..214) \cup (216..246) \cup (248..255)

\* s[i] for a Go string s and a 0-based byte index i; -1 stands for the value of
\* an index expression that is out of range (Go panics there).
ByteAt(s, i) == IF i \in 0..(Len(s) - 1) THEN s[i + 1] ELSE -1

\* s[start:end] for a Go string s.
Slice(s, start, end) == SubSeq(s, start + 1, end)

----------------------------------------------------------------------------
(* Tokens *)

TokenKinds == {"Invalid", "Number", "Identifier", "Operator", "Punctuation", "Keyword"}

Token(kind, value) == [Kind |-> kind, Value |-> value]

\* Token{} and Token{Kind: TokenInvalid}: the zero kind and the empty string.
InvalidToken == Token("Invalid", <<>>)

----------------------------------------------------------------------------
(* Lexer *)

NewLexer(input) == [input |-> input, pos |-> 0, tokens |-> <<>>]

emitToken(lx, kind, value) == [lx EXCEPT !.tokens = Append(@, Token(kind, value))]

NumberByte_DigitsOnly(c) == IsDigit(c)

\* The condition of readNumber's loop on the byte at l.pos.
NumberByte(c) == IsDigit(c) \/ c = Dot

IdentifierByte_NoUnderscore(c) == IsLetter(c) \/ IsDigit(c)

\* The condition of readIdentifier's loop on the byte at l.pos.
IdentifierByte(c) == IsLetter(c) \/ IsDigit(c) \/ c = Underscore

\* The loop head of Lex, readNumber and readIdentifier: l.pos < len(l.input).
InRange(lx) == lx.pos < Len(lx.input)

\* readNumber's loop from lexer state lx: the lexer state it stops in and the
\* indices it read.
RECURSIVE numberLoop(_, _)
numberLoop(lx, rd) ==
    IF InRange(lx)
    THEN IF NumberByte(ByteAt(lx.input, lx.pos))
         THEN numberLoop([lx EXCEPT !.pos = @ + 1], rd \cup {lx.pos})
         ELSE [l |-> lx, reads |-> rd \cup {lx.pos}]
    ELSE [l |-> lx, reads |-> rd]

\* readIdentifier's loop, likewise.
RECURSIVE identifierLoop(_, _)
identifierLoop(lx, rd) ==
    IF InRange(lx)
    THEN IF IdentifierByte(ByteAt(lx.input, lx.pos))
         THEN identifierLoop([lx EXCEPT !.pos = @ + 1], rd \cup {lx.pos})
         ELSE [l |-> lx, reads |-> rd \cup {lx.pos}]
    ELSE [l |-> lx, reads |-> rd]

readNumber(lx) ==
    LET start == lx.pos
        r     == numberLoop(lx, {})
    IN  [l     |-> emitToken(r.l, "Number", Slice(lx.input, start, r.l.pos)),
         reads |-> r.reads,
         span  |-> <<[start |-> start, end |-> r.l.pos]>>]

readIdentifier(lx) ==
    LET start == lx.pos
        r     == identifierLoop(lx, {})
    IN  [l     |-> emitToken(r.l, "Identifier", Slice(lx.input, start, r.l.pos)),
         reads |-> r.reads,
         span  |-> <<[start |-> start, end |-> r.l.pos]>>]

\* readSymbol with the token emitted before l.pos++.
readSymbol_EmitBeforeAdvance(lx) ==
    LET start == lx.pos
        adv   == [lx EXCEPT !.pos = @ + 1]
    IN  IF ByteAt(lx.input, lx.pos) \in SymbolBytes
        THEN [l     |-> [emitToken(lx, "Punctuation", Slice(lx.input, start, lx.pos))
                            EXCEPT !.pos = @ + 1],
              reads |-> {lx.pos},
              span  |-> <<[start |-> start, end |-> lx.pos]>>]
        ELSE [l |-> adv, reads |-> {lx.pos}, span |-> <<>>]

\* readSymbol with no l.pos++ in the default case.
readSymbol_StuckOnUnknown(lx) ==
    LET start == lx.pos
        adv   == [lx EXCEPT !.pos = @ + 1]
    IN  IF ByteAt(lx.input, lx.pos) \in SymbolBytes
        THEN [l     |-> emitToken(adv, "Punctuation", Slice(lx.input, start, adv.pos)),
              reads |-> {lx.pos},
              span  |-> <<[start |-> start, end |-> adv.pos]>>]
        ELSE [l |-> lx, reads |-> {lx.pos}, span |-> <<>>]

\* readSymbol emitting an Invalid token for a byte it does not know.
readSymbol_EmitsInvalid(lx) ==
    LET start == lx.pos
        adv   == [lx EXCEPT !.pos = @ + 1]
    IN  IF ByteAt(lx.input, lx.pos) \in SymbolBytes
        THEN [l     |-> emitToken(adv, "Punctuation", Slice(lx.input, start, adv.pos)),
              reads |-> {lx.pos},
              span  |-> <<[start |-> start, end |-> adv.pos]>>]
        ELSE [l     |-> emitToken(adv, "Invalid", Slice(lx.input, start, adv.pos)),
              reads |-> {lx.pos},
              span  |-> <<[start |-> start, end |-> adv.pos]>>]

readSymbol(lx) ==
    LET start == lx.pos
        adv   == [lx EXCEPT !.pos = @ + 1]
    IN  IF ByteAt(lx.input, lx.pos) \in SymbolBytes
        THEN [l     |-> emitToken(adv, "Punctuation", Slice(lx.input, start, adv.pos)),
              reads |-> {lx.pos},
              span  |-> <<[start |-> start, end |-> adv.pos]>>]
        ELSE [l |-> adv, reads |-> {lx.pos}, span |-> <<>>]

\* The whitespace branch of Lex's loop: l.pos++; continue.
skipSpace(lx) ==
    [l |-> [lx EXCEPT !.pos = @ + 1], reads |-> {lx.pos}, span |-> <<>>]

\* Which branch the body of Lex's loop takes on the byte at l.pos.
LexBranch(lx) ==
    LET c == ByteAt(lx.input, lx.pos)
    IN  IF IsSpace(c) THEN "space"
        ELSE IF IsDigit(c) THEN "number"
        ELSE IF IsLetter(c) THEN "identifier"
        ELSE "symbol"

\* One iteration of Lex's loop, taking branch b.
LexIteration(b, step) ==
    /\ pc = "Lex"
    /\ InRange(l)
    /\ LexBranch(l) = b
    /\ l' = step.l
    /\ spans' = spans \o step.span
    /\ reads' = step.reads \cup {l.pos}
    /\ UNCHANGED <<code, rets, p, out>>
    /\ pc' = "Lex"

LexSpace == LexIteration("space", skipSpace(l))

LexNumber == LexIteration("number", readNumber(l))

LexIdentifier == LexIteration("identifier", readIdentifier(l))

LexSymbol == LexIteration("symbol", readSymbol(l))

\* Lex's loop ends and Lex returns l.tokens.
LexReturn ==
    /\ pc = "Lex"
    /\ ~InRange(l)
    /\ rets' = Append(rets, l.tokens)
    /\ reads' = {}
    /\ pc' = "Lexed"
    /\ UNCHANGED <<code, l, spans, p, out>>

\* Lex starting over from offset 0.
LexEntry_Rewinds(lx) == [lx EXCEPT !.pos = 0]

\* The state of the Lexer as a call of Lex finds it: Lex initialises nothing.
LexEntry(lx) == lx

\* Lex is called once more on the same Lexer.
LexAgain ==
    /\ pc = "Lexed"
    /\ Len(rets) < MaxCalls
    /\ l' = LexEntry(l)
    /\ pc' = "Lex"
    /\ UNCHANGED <<code, spans, reads, rets, p, out>>

\* A second Lexer is made for the same input and Lex is called on it.
FreshLexer ==
    /\ pc = "Lexed"
    /\ Len(rets) < MaxCalls
    /\ l' = NewLexer(code)
    /\ spans' = <<>>
    /\ pc' = "Lex"
    /\ UNCHANGED <<code, reads, rets, p, out>>

----------------------------------------------------------------------------
(* float64, as exact rationals n/d in lowest terms with d >= 0;                *)
(* d = 0: n = 1 is +Inf, n = -1 is -Inf, n = 0 is NaN                          *)

RECURSIVE Gcd(_, _)
Gcd(a, b) == IF b = 0 THEN a ELSE Gcd(b, a % b)

Abs(x) == IF x < 0 THEN -x ELSE x

Rat(n, d) ==
    LET sn == IF d < 0 THEN -n ELSE n
        sd == Abs(d)
        g  == Gcd(Abs(sn), sd)
    IN  IF g = 0 THEN [n |-> 0, d |-> 0] ELSE [n |-> sn \div g, d |-> sd \div g]

\* var result float64: the zero value.
Zero == Rat(0, 1)

FAdd(a, b) ==
    IF a.d = 0 /\ b.d = 0
    THEN (IF a.n = b.n THEN a ELSE Rat(0, 0))
    ELSE Rat(a.n * b.d + b.n * a.d, a.d * b.d)

FNeg(a) == [n |-> -a.n, d |-> a.d]

FSub(a, b) == FAdd(a, FNeg(b))

FMul(a, b) == Rat(a.n * b.n, a.d * b.d)

FDiv(a, b) == Rat(a.n * b.d, a.d * b.n)

RECURSIVE Pow10(_)
Pow10(k) == IF k = 0 THEN 1 ELSE 10 * Pow10(k - 1)

\* The digits of text, in order ('.' dropped).
DigitsOf(text) == SelectSeq(text, IsDigit)

\* How many '.' text holds.
DotCount(text) == Len(SelectSeq(text, LAMBDA c : c = Dot))

\* The number of digits after the first '.' of text (0 when there is none).
RECURSIVE FractionDigits(_)
FractionDigits(text) ==
    IF text = <<>> THEN 0
    ELSE IF Head(text) = Dot THEN Len(DigitsOf(Tail(text)))
    ELSE FractionDigits(Tail(text))

\* The number a sequence of decimal digits denotes.
RECURSIVE DecimalValue(_)
DecimalValue(ds) ==
    IF ds = <<>> THEN 0
    ELSE 10 * DecimalValue(SubSeq(ds, 1, Len(ds) - 1)) + (ds[Len(ds)] - 48)

\* Whether strconv.ParseFloat accepts text, for a text of digits and '.' (the
\* only texts a Number token holds): digits with at most one '.'.
ValidFloat(text) ==
    /\ \A i \in 1..Len(text) : IsDigit(text[i]) \/ text[i] = Dot
    /\ DigitsOf(text) # <<>>
    /\ DotCount(text) <= 1

\* result, _ = strconv.ParseFloat(text, 64): the value, or 0 with the error dropped.
ParseFloat(text) ==
    IF ValidFloat(text)
    THEN Rat(DecimalValue(DigitsOf(text)), Pow10(FractionDigits(text)))
    ELSE Zero

----------------------------------------------------------------------------
(* Standard output *)

\* fmt.Printf("Assign %s = %f\n", identifier, value)
AssignLine(identifier, value) ==
    [kind |-> "Assign", identifier |-> identifier, value |-> value, message |-> ""]

\* fmt.Printf("Parse error: %s\n", message)
ErrorLine(message) ==
    [kind |-> "Parse error", identifier |-> <<>>, value |-> Zero, message |-> message]

\* One more line on standard output.
Printf(o, line) == IF Len(o) < MaxOut THEN Append(o, line) ELSE o

----------------------------------------------------------------------------
(* Parser: the functions take and return st = [p |-> the Parser, out |-> stdout] *)

NewParser(tokens) == [tokens |-> tokens, current |-> InvalidToken, pos |-> 0]

\* advance leaving the current token in place when the tokens are used up.
advance_NoSentinel(q) ==
    IF q.pos < Len(q.tokens)
    THEN [q EXCEPT !.current = q.tokens[q.pos + 1], !.pos = @ + 1]
    ELSE q

advance(q) ==
    IF q.pos < Len(q.tokens)
    THEN [q EXCEPT !.current = q.tokens[q.pos + 1], !.pos = @ + 1]
    ELSE [q EXCEPT !.current = InvalidToken]

error(st, message) == [st EXCEPT !.out = Printf(@, ErrorLine(message))]

\* factor stepping over the token it rejects.
factor_SkipsRejected(st) ==
    IF st.p.current.Kind = "Number"
    THEN [st     |-> [st EXCEPT !.p = advance(@)],
          result |-> ParseFloat(st.p.current.Value)]
    ELSE IF st.p.current.Kind = "Identifier"
    THEN [st     |-> [error(st, "Variable not supported") EXCEPT !.p = advance(@)],
          result |-> Zero]
    ELSE [st     |-> [error(st, "Invalid expression") EXCEPT !.p = advance(@)],
          result |-> Zero]

\* factor reporting the error of strconv.ParseFloat instead of dropping it.
factor_ReportsBadNumber(st) ==
    IF st.p.current.Kind = "Number"
    THEN [st     |-> IF ValidFloat(st.p.current.Value)
                     THEN [st EXCEPT !.p = advance(@)]
                     ELSE [error(st, "Invalid expression") EXCEPT !.p = advance(@)],
          result |-> ParseFloat(st.p.current.Value)]
    ELSE IF st.p.current.Kind = "Identifier"
    THEN [st |-> error(st, "Variable not supported"), result |-> Zero]
    ELSE [st |-> error(st, "Invalid expression"), result |-> Zero]

\* factor without p.advance() after a Number.
factor_KeepsNumber(st) ==
    IF st.p.current.Kind = "Number"
    THEN [st |-> st, result |-> ParseFloat(st.p.current.Value)]
    ELSE IF st.p.current.Kind = "Identifier"
    THEN [st |-> error(st, "Variable not supported"), result |-> Zero]
    ELSE [st |-> error(st, "Invalid expression"), result |-> Zero]

factor(st) ==
    IF st.p.current.Kind = "Number"
    THEN [st     |-> [st EXCEPT !.p = advance(@)],
          result |-> ParseFloat(st.p.current.Value)]
    ELSE IF st.p.current.Kind = "Identifier"
    THEN [st |-> error(st, "Variable not supported"), result |-> Zero]
    ELSE [st |-> error(st, "Invalid expression"), result |-> Zero]

OperatorKind_Punctuation == "Punctuation"

\* The kind of token the loops of expression and term look for.
OperatorKind == "Operator"

\* The condition of term's loop.
TermLoopCond(st) ==
    st.p.current.Kind = OperatorKind /\ st.p.current.Value \in {<<42>>, <<47>>}

\* The condition of expression's loop.
ExpressionLoopCond(st) ==
    st.p.current.Kind = OperatorKind /\ st.p.current.Value \in {<<43>>, <<45>>}

RECURSIVE termLoop(_, _)
termLoop(st, result) ==
    IF TermLoopCond(st)
    THEN LET operator == st.p.current.Value
             f        == factor([st EXCEPT !.p = advance(@)])
         IN  termLoop(f.st, IF operator = <<42>>
                            THEN FMul(result, f.result)
                            ELSE FDiv(result, f.result))
    ELSE [st |-> st, result |-> result]

term(st) == LET f == factor(st) IN termLoop(f.st, f.result)

RECURSIVE expressionLoop(_, _)
expressionLoop(st, result) ==
    IF ExpressionLoopCond(st)
    THEN LET operator == st.p.current.Value
             t        == term([st EXCEPT !.p = advance(@)])
         IN  expressionLoop(t.st, IF operator = <<43>>
                                  THEN FAdd(result, t.result)
                                  ELSE FSub(result, t.result))
    ELSE [st |-> st, result |-> result]

expression(st) == LET t == term(st) IN expressionLoop(t.st, t.result)

\* The text assignmentStatement compares the token after the identifier with: "=".
EqualsText == <<61>>

\* assignmentStatement looking at the token after the identifier without
\* p.advance() when it is not "=".
assignmentStatement_PeeksEquals(st) ==
    LET identifier == st.p.current.Value
        s1         == [st EXCEPT !.p = advance(@)]
    IN  IF s1.p.current.Value # EqualsText
        THEN error(st, "Expected '='")
        ELSE LET e == expression([s1 EXCEPT !.p = advance(@)])
             IN  [e.st EXCEPT !.out = Printf(@, AssignLine(identifier, e.result))]

\* assignmentStatement printing no Assign line when the expression printed a
\* diagnostic.
assignmentStatement_SilentOnDiagnostic(st) ==
    LET identifier == st.p.current.Value
        s1         == [st EXCEPT !.p = advance(@)]
    IN  IF s1.p.current.Value # EqualsText
        THEN error(s1, "Expected '='")
        ELSE LET e == expression([s1 EXCEPT !.p = advance(@)])
             IN  IF e.st.out # s1.out
                 THEN e.st
                 ELSE [e.st EXCEPT !.out = Printf(@, AssignLine(identifier, e.result))]

assignmentStatement(st) ==
    LET identifier == st.p.current.Value
        s1         == [st EXCEPT !.p = advance(@)]
    IN  IF s1.p.current.Value # EqualsText
        THEN error(s1, "Expected '='")
        ELSE LET e == expression([s1 EXCEPT !.p = advance(@)])
             IN  [e.st EXCEPT !.out = Printf(@, AssignLine(identifier, e.result))]

\* statement stepping over the token it rejects.
statement_SkipsUnexpected(st) ==
    IF st.p.current.Kind = "Identifier"
    THEN assignmentStatement(st)
    ELSE [error(st, "Unexpected token") EXCEPT !.p = advance(@)]

statement(st) ==
    IF st.p.current.Kind = "Identifier"
    THEN assignmentStatement(st)
    ELSE error(st, "Unexpected token")

----------------------------------------------------------------------------
(* main and Parse *)

\* main: parser := NewParser(tokens); parser.Parse() up to the loop: p.advance().
ParseStart ==
    /\ pc = "Lexed"
    /\ p' = advance(NewParser(rets[Len(rets)]))
    /\ pc' = "loop"
    /\ UNCHANGED <<code, l, spans, reads, rets, out>>

\* Parse: the loop condition holds, the body is entered.
ParseLoop ==
    /\ pc = "loop"
    /\ p.current.Kind # "Invalid"
    /\ pc' = "statement"
    /\ UNCHANGED <<code, l, spans, reads, rets, p, out>>

\* Parse: the body of the loop, one call of p.statement().
Statement ==
    /\ pc = "statement"
    /\ LET st == statement([p |-> p, out |-> out])
       IN  p' = st.p /\ out' = st.out
    /\ pc' = "loop"
    /\ UNCHANGED <<code, l, spans, reads, rets>>

\* Parse: the loop condition fails, Parse returns.
ParseReturn ==
    /\ pc = "loop"
    /\ p.current.Kind = "Invalid"
    /\ pc' = "done"
    /\ UNCHANGED <<code, l, spans, reads, rets, p, out>>

----------------------------------------------------------------------------
(* Inputs *)

\* A byte of each class the Lexer tells apart: ' ', '1', '.', 'x', '_', '=', '+',
\* '#', and the two bytes 0xC2 0xA0 of the UTF-8 encoding of U+00A0.
Alphabet == {32, 49, 46, 120, 95, 61, 43, 35, 194, 160}

BoundedInputs == UNION {[1..n -> Alphabet] : n \in 0..MaxLen}

ExExpr == <<120, 32, 61, 32, 51, 32, 43, 32, 52, 32, 42, 32, 50>>  \* "x = 3 + 4 * 2"
ExY5 == <<121, 32, 61, 32, 53, 10>>                                \* "y = 5\n"
ExZW == <<122, 32, 61, 32, 119>>                                   \* "z = w"
Ex53 == <<53, 32, 61, 32, 51>>                                     \* "5 = 3"
ExNum == <<49, 50, 46, 53>>                                        \* "12.5"
ExDots == <<49, 46, 50, 46, 51>>                                   \* "1.2.3"
ExIdent == <<120, 95, 49>>                                         \* "x_1"
ExPunct == <<61, 43>>                                              \* "=+"
ExHash == <<35>>                                                   \* "#"
ExTwo == <<97, 61, 49, 98, 61, 50, 46, 53>>                        \* "a=1b=2.5"
ExBadNum == <<113, 61, 49, 46, 50, 46, 51>>                        \* "q=1.2.3"
ExNBSP == <<194, 160>>                                             \* U+00A0 in UTF-8
ExEAcute == <<195, 169, 61, 49>>                                   \* "é=1" in UTF-8
ExECirc == <<195, 170>>                                            \* "ê" in UTF-8

Examples ==
    {ExExpr, ExY5, ExZW, Ex53, ExNum, ExDots, ExIdent, ExPunct, ExHash, ExTwo,
     ExBadNum, ExNBSP, ExEAcute, ExECirc}

Inputs == BoundedInputs \cup Examples

----------------------------------------------------------------------------
(* Specifications *)

\* main has read the line, made the Lexer and called Lex.
Init ==
    /\ code \in Inputs
    /\ l = NewLexer(code)
    /\ spans = <<>>
    /\ reads = {}
    /\ rets = <<>>
    /\ p = NewParser(<<>>)
    /\ out = <<>>
    /\ pc = "Lex"

Lex == LexSpace \/ LexNumber \/ LexIdentifier \/ LexSymbol \/ LexReturn

Parse == ParseStart \/ ParseLoop \/ Statement \/ ParseReturn

Next == Lex \/ Parse

\* main: Lex once, then Parse.
Spec == Init /\ [][Next]_vars

\* The program is sequential and runs whenever it can take a step.
FairSpec == Spec /\ WF_vars(Next)

NextReLex == Lex \/ LexAgain \/ FreshLexer

\* The Lexer alone: up to MaxCalls calls of Lex, each on the same Lexer again or
\* on a fresh Lexer for the same input.
SpecReLex == Init /\ [][NextReLex]_vars

----------------------------------------------------------------------------
(* What every state satisfies *)

TypeOK ==
    /\ code \in Inputs
    /\ l.input = code
    /\ l.pos \in 0..Len(code)
    /\ \A i \in 1..Len(l.tokens) : l.tokens[i].Kind \in TokenKinds
    /\ Len(spans) = Len(l.tokens)
    /\ p.pos \in 0..Len(p.tokens)
    /\ p.current.Kind \in TokenKinds
    /\ Len(out) <= MaxOut
    /\ pc \in {"Lex", "Lexed", "loop", "statement", "done"}

\* A run of Parse that returns has lost no line of its output.
TerminatedOutputComplete == pc = "done" => Len(out) < MaxOut

----------------------------------------------------------------------------
(* Notation for the properties *)

\* The texts of a token sequence, concatenated in order.
RECURSIVE Concat(_)
Concat(toks) == IF toks = <<>> THEN <<>> ELSE Head(toks).Value \o Concat(Tail(toks))

\* The token at 1-based index i of the Parser's sequence, the sentinel beyond it.
TokAt(i) == IF i \in 1..Len(p.tokens) THEN p.tokens[i] ELSE InvalidToken

\* In a step: the lines the step printed.
Printed == SubSeq(out', Len(out) + 1, Len(out'))

\* A call of statement is about to run on a statement that starts with an
\* Identifier followed by "=" (the Identifier is p.tokens[p.pos]).
AtAssignment ==
    /\ pc = "statement"
    /\ p.current.Kind = "Identifier"
    /\ TokAt(p.pos) = p.current
    /\ TokAt(p.pos + 1).Value = EqualsText

\* The lines of kind k among the lines o.
LinesOfKind(o, k) == SelectSeq(o, LAMBDA ln : ln.kind = k)

----------------------------------------------------------------------------
(* C1 *)

\* C1: for every token sequence Lex can produce, Parse terminates: after finitely
\* many statement attempts the current token is the Invalid sentinel and Parse
\* returns.
C1_ParseTerminates == <>(pc = "done")

----------------------------------------------------------------------------
(* C2 *)

\* C2 as stated: a statement Identifier '=' Identifier prints "Variable not
\* supported" and no Assign line, and the input "z = w" prints no Assign line at all.
C2_NoAssignAfterVariable ==
    /\ [][AtAssignment /\ TokAt(p.pos + 2).Kind = "Identifier"
            => /\ \E k \in 1..Len(Printed) :
                     Printed[k] = ErrorLine("Variable not supported")
               /\ LinesOfKind(Printed, "Assign") = <<>>]_vars
    /\ [](code = ExZW => LinesOfKind(out, "Assign") = <<>>)

\* C2 as amended: a statement Identifier '=' Identifier prints "Variable not
\* supported" and then the Assign line of its identifier with the value zero, and
\* nothing else; the input "z = w" prints that diagnostic, Assign z = 0 and then
\* "Expected '='" for the attempt that starts at w.
C2_AssignZeroAfterVariable ==
    /\ [][AtAssignment /\ TokAt(p.pos + 2).Kind = "Identifier"
            => Printed = << ErrorLine("Variable not supported"),
                            AssignLine(p.current.Value, Zero) >>]_vars
    /\ [](code = ExZW /\ pc = "done"
            => out = << ErrorLine("Variable not supported"),
                        AssignLine(<<122>>, Zero),
                        ErrorLine("Expected '='") >>)

\* "z = w" has been parsed to the end: the diagnostic and the Assign line are out.
C2_Witness ==
    /\ code = ExZW
    /\ pc = "done"
    /\ Len(out) = 3
    /\ out[2].kind = "Assign"

----------------------------------------------------------------------------
(* C3 *)

\* C3: on a token sequence from Lex the loops of expression and term are never
\* entered: a statement Identifier '=' Number prints the Assign line of the
\* identifier with the value of that Number alone and consumes exactly those
\* three tokens (the next attempt starts at the token after the Number), whatever
\* follows; "x = 3 + 4 * 2" prints Assign x = 3 first.
C3_OnlyFirstFactor ==
    /\ [][AtAssignment /\ TokAt(p.pos + 2).Kind = "Number"
            => /\ Printed = <<AssignLine(p.current.Value,
                                         ParseFloat(TokAt(p.pos + 2).Value))>>
               /\ p'.current = TokAt(p.pos + 3)
               /\ p'.pos = (IF p.pos + 3 <= Len(p.tokens) THEN p.pos + 3 ELSE p.pos + 2)]_vars
    /\ [](~ExpressionLoopCond([p |-> p, out |-> out])
            /\ ~TermLoopCond([p |-> p, out |-> out]))
    /\ [](code = ExExpr /\ out # <<>> => out[1] = AssignLine(<<120>>, Rat(3, 1)))

\* "x = 3 + 4 * 2": the first statement has been parsed and has printed Assign x = 3,
\* with the cursor on the "+" that follows the 3.
C3_Witness ==
    /\ code = ExExpr
    /\ pc = "loop"
    /\ out = <<AssignLine(<<120>>, Rat(3, 1))>>
    /\ p.current = Token("Punctuation", <<43>>)

----------------------------------------------------------------------------
(* C4 *)

\* The bytes the claim's inputs are made of: whitespace, digits, letters, '_' and
\* the ten symbols, each byte classified as Lex classifies it.
ClaimByte(c) == IsSpace(c) \/ IsDigit(c) \/ IsLetter(c) \/ c = Underscore \/ c \in SymbolBytes

OnlyClaimBytes(s) == \A i \in 1..Len(s) : ClaimByte(s[i])

WithoutSpace(s) == SelectSeq(s, LAMBDA c : ~IsSpace(c))

\* The '_' at 1-based index i of s continues an identifier: the run of letters,
\* digits and '_' that ends just before it holds a letter.
InsideIdentifier(s, i) ==
    \E j \in 1..(i - 1) :
        /\ IsLetter(s[j])
        /\ \A k \in j..(i - 1) : IsLetter(s[k]) \/ IsDigit(s[k]) \/ s[k] = 95

\* s without its whitespace and without every '_' that continues no identifier.
KeptText(s) ==
    LET keep(i) == ~IsSpace(s[i]) /\ (s[i] = Underscore => InsideIdentifier(s, i))
        idx     == SelectSeq([i \in 1..Len(s) |-> i], keep)
    IN  [k \in 1..Len(idx) |-> s[idx[k]]]

\* C4 as stated: for an input of whitespace, digits, letters, '_' and the ten
\* symbols only, the token texts returned by Lex, concatenated, are the input
\* without its whitespace.
C4_ConcatIsInputWithoutSpace ==
    pc = "Lexed" /\ OnlyClaimBytes(code) => Concat(rets[1]) = WithoutSpace(code)

\* C4 as amended: for such an input (each byte classified as Lex classifies it),
\* the token texts emitted so far, concatenated, are the scanned part of the
\* input without its whitespace and without every '_' that continues no
\* identifier; so are the texts Lex returns, for the whole input.
C4_ConcatIsKeptText ==
    OnlyClaimBytes(code) =>
        /\ Concat(l.tokens) = KeptText(Slice(code, 0, l.pos))
        /\ pc = "Lexed" => Concat(rets[1]) = KeptText(code)

\* Lex has returned on "_x_": the leading '_' is dropped, the one after x kept.
C4_Witness ==
    /\ pc = "Lexed"
    /\ code = <<95, 120, 95>>
    /\ Concat(rets[1]) = <<120, 95>>

----------------------------------------------------------------------------
(* C5 *)

\* C5: in every state of Lex and in its result, every emitted token has a
\* non-empty text that is input[start:end]; the ranges lie inside the scanned
\* part of the input, are pairwise disjoint and appear in strictly increasing
\* order; and no token text holds a whitespace character.
C5_TokensAreDisjointSlices ==
    /\ Len(spans) = Len(l.tokens)
    /\ \A i \in 1..Len(l.tokens) :
          /\ 0 <= spans[i].start /\ spans[i].start < spans[i].end
          /\ spans[i].end <= l.pos /\ l.pos <= Len(code)
          /\ l.tokens[i].Value = [k \in 1..(spans[i].end - spans[i].start)
                                    |-> code[spans[i].start + k]]
          /\ l.tokens[i].Value # <<>>
          /\ \A k \in 1..Len(l.tokens[i].Value) : ~IsSpace(l.tokens[i].Value[k])
          /\ i < Len(l.tokens) => spans[i].end <= spans[i + 1].start
    /\ \A i \in 1..Len(rets) : rets[i] = l.tokens

\* Lex has returned three tokens, with one whitespace byte between two of them.
C5_Witness ==
    /\ pc = "Lexed"
    /\ Len(rets[1]) = 3
    /\ \E i \in 1..2 : /\ spans[i].end + 1 = spans[i + 1].start
                       /\ IsSpace(ByteAt(code, spans[i].end))

----------------------------------------------------------------------------
(* C6 *)

\* C6: Lex terminates without failing on every input, the empty one and those
\* with unrecognized characters included: the offset never passes len(input);
\* every iteration of the loop increases it by at least one; every index read
\* is in range; Lex returns exactly when the offset equals len(input), with the
\* accumulated tokens; and it does return.
C6_LexTerminates ==
    /\ [](l.pos <= Len(code))
    /\ [](reads \subseteq 0..(Len(code) - 1))
    /\ [][pc = "Lex" =>
            IF l.pos # Len(code)
            THEN pc' = "Lex" /\ l'.pos >= l.pos + 1 /\ reads' # {}
            ELSE pc' = "Lexed" /\ rets' = Append(rets, l.tokens) /\ l' = l]_vars
    /\ <>(pc = "Lexed")

\* Lex has returned on an input whose three bytes are all unrecognized.
C6_Witness ==
    /\ pc = "Lexed"
    /\ code = <<35, 35, 35>>
    /\ rets = << <<>> >>
    /\ l.pos = 3

----------------------------------------------------------------------------
(* C7 *)

\* A digit or '.'.
DigitOrDot(c) == c \in (48..57) \cup {46}

\* A letter, a digit or '_'.
LetterDigitOrUnderscore(c) == IsLetter(c) \/ c \in (48..57) \cup {95}

\* The end of the maximal run of bytes of class Cls that starts at offset pos of s.
RunEnd(s, pos, Cls(_)) ==
    CHOOSE e \in pos..Len(s) :
        /\ \A k \in pos..(e - 1) : Cls(ByteAt(s, k))
        /\ e = Len(s) \/ ~Cls(ByteAt(s, e))

\* In a step of Lex's loop: exactly one token, of kind k and with the text
\* input[l.pos:e], is emitted and the offset becomes e.
EmitsOne(k, e) ==
    /\ l'.tokens = Append(l.tokens, Token(k, [i \in 1..(e - l.pos) |-> code[l.pos + i]]))
    /\ l'.pos = e

\* C7: Lex classifies by the first byte, with maximal munch: a digit starts one
\* Number token, the maximal run of digits and '.'; a letter starts one
\* Identifier token, the maximal run of letters, digits and '_'; each of the ten
\* symbols gives one single-character Punctuation token; any other byte is
\* consumed alone and gives no token.  So "12.5" and "1.2.3" are one Number each,
\* "x_1" is one Identifier, "=+" is "=" then "+", and "#" gives nothing.
C7_MaximalMunch ==
    /\ [][pc = "Lex" /\ l.pos < Len(code) =>
            LET c == code[l.pos + 1]
            IN  IF IsDigit(c) THEN EmitsOne("Number", RunEnd(code, l.pos, DigitOrDot))
                ELSE IF IsLetter(c)
                     THEN EmitsOne("Identifier", RunEnd(code, l.pos, LetterDigitOrUnderscore))
                ELSE IF c \in SymbolBytes THEN EmitsOne("Punctuation", l.pos + 1)
                ELSE l'.tokens = l.tokens /\ l'.pos = l.pos + 1]_vars
    /\ [](pc = "Lexed" =>
            /\ code = ExNum => rets[1] = <<Token("Number", ExNum)>>
            /\ code = ExDots => rets[1] = <<Token("Number", ExDots)>>
            /\ code = ExIdent => rets[1] = <<Token("Identifier", ExIdent)>>
            /\ code = ExPunct =>
                 rets[1] = <<Token("Punctuation", <<61>>), Token("Punctuation", <<43>>)>>
            /\ code = ExHash => rets[1] = <<>>)

\* Lex has returned "1.2.3" as one Number token.
C7_Witness ==
    /\ pc = "Lexed"
    /\ code = ExDots
    /\ rets[1] = <<Token("Number", ExDots)>>

----------------------------------------------------------------------------
(* C8 *)

\* A continuation byte of UTF-8.
Continuation(b) == b \in 128..191

\* The length of the UTF-8 encoding that byte b starts (0: b starts none).
EncodingLen(b) ==
    IF b \in 0..127 THEN 1
    ELSE IF b \in 194..223 THEN 2
    ELSE IF b \in 224..239 THEN 3
    ELSE IF b \in 240..244 THEN 4
    ELSE 0

\* The offsets from i on at which the code points of s start; {-1} is added when
\* s is not a sequence of whole encodings from i on.
RECURSIVE Starts(_, _)
Starts(s, i) ==
    IF i >= Len(s) THEN {}
    ELSE LET n == EncodingLen(s[i + 1])
         IN  IF /\ n > 0
                /\ i + n <= Len(s)
                /\ \A k \in 1..(n - 1) : Continuation(s[i + k + 1])
             THEN {i} \cup Starts(s, i + n)
             ELSE {-1}

ValidUTF8(s) == -1 \notin Starts(s, 0)

\* The code point of the two-byte encoding at offset i of s.
CodePoint2(s, i) == (s[i + 1] - 192) * 64 + (s[i + 2] - 128)

\* C8: Lex scans whole code points of its UTF-8 input: no token begins or ends
\* inside the encoding of a code point; a whitespace code point of several bytes
\* is skipped and no token holds any of its bytes; a letter of several bytes lies
\* whole inside one Identifier token.  (Stated for the code points up to U+00FF.)
C8_WholeCodePoints ==
    pc = "Lexed" /\ ValidUTF8(code) =>
        /\ \A t \in 1..Len(spans) :
              /\ spans[t].start \in Starts(code, 0)
              /\ spans[t].end \in Starts(code, 0) \cup {Len(code)}
        /\ \A i \in Starts(code, 0) :
              code[i + 1] \in {194, 195} =>
                  /\ IsSpace(CodePoint2(code, i)) =>
                        \A t \in 1..Len(spans) :
                            spans[t].end <= i \/ i + 2 <= spans[t].start
                  /\ IsLetter(CodePoint2(code, i)) =>
                        \E t \in 1..Len(spans) :
                            /\ spans[t].start <= i /\ i + 2 <= spans[t].end
                            /\ rets[1][t].Kind = "Identifier"

----------------------------------------------------------------------------
(* C9 *)

\* toks is k >= 0 triples Identifier, '=', Number.
IsTriples(toks) ==
    /\ Len(toks) % 3 = 0
    /\ \A i \in 1..(Len(toks) \div 3) :
          /\ toks[3 * i - 2].Kind = "Identifier"
          /\ toks[3 * i - 1] = Token("Punctuation", EqualsText)
          /\ toks[3 * i].Kind = "Number"

\* One Assign line per triple: its identifier and the value of its Number.
AssignsOf(toks) ==
    [i \in 1..(Len(toks) \div 3) |->
        AssignLine(toks[3 * i - 2].Value, ParseFloat(toks[3 * i].Value))]

IsPrefix(a, b) == Len(a) <= Len(b) /\ a = SubSeq(b, 1, Len(a))

\* C9: on a token sequence of k >= 0 triples Identifier, '=', Number, Parse
\* returns, having printed exactly k lines: the Assign line of each triple, in
\* input order, with the triple's identifier and the value of its Number; it
\* prints no diagnostic at any time.
C9_TriplesAssign ==
    /\ [](pc \in {"loop", "statement", "done"} /\ IsTriples(p.tokens) =>
            /\ IsPrefix(out, AssignsOf(p.tokens))
            /\ pc = "done" => out = AssignsOf(p.tokens))
    /\ (pc = "Lexed" /\ IsTriples(rets[1])) ~> (pc = "done")

\* "a=1b=2.5" has been parsed: Assign a = 1, then Assign b = 5/2.
C9_Witness ==
    /\ pc = "done"
    /\ code = ExTwo
    /\ out = <<AssignLine(<<97>>, Rat(1, 1)), AssignLine(<<98>>, Rat(5, 2))>>

----------------------------------------------------------------------------
(* C10 *)

\* C10: every call of Lex for the same input returns the same token sequence,
\* on a fresh Lexer and on a Lexer that Lex has already run on; a second call on
\* the same Lexer appends no token and changes none.
C10_SameTokensEveryCall ==
    /\ \A i \in 1..Len(rets) : rets[i] = rets[1]
    /\ pc = "Lexed" => l.tokens = rets[1]

\* Lex has returned twice for the same input, a sequence of two tokens each time.
C10_Witness ==
    /\ pc = "Lexed"
    /\ Len(rets) = 2
    /\ Len(rets[2]) = 2
    /\ l.tokens = rets[2]

----------------------------------------------------------------------------
(* C11 *)

\* Parse is in its loop with a current token that is neither an Identifier nor
\* the sentinel.
OnRejectedToken ==
    /\ pc \in {"loop", "statement"}
    /\ p.current.Kind \notin {"Identifier", "Invalid"}

\* statement is about to be called, and the call prints "Unexpected token" and
\* nothing else.
AboutToPrintUnexpected ==
    /\ pc = "statement"
    /\ statement([p |-> p, out |-> <<>>]).out = <<ErrorLine("Unexpected token")>>

\* C11: a call of statement on a current token that is neither an Identifier nor
\* the sentinel prints "Parse error: Unexpected token" and leaves pos and the
\* current token unchanged; from then on Parse stays in its loop on that same
\* token, calls statement and prints "Unexpected token" again and again (each
\* such call is followed by the loop head, each loop head by such a call), and
\* never returns.
C11_UnexpectedTokenForever ==
    /\ [][pc = "statement" /\ p.current.Kind \notin {"Identifier", "Invalid"}
            => /\ p' = p
               /\ out' = Printf(out, ErrorLine("Unexpected token"))
               /\ (Len(out) < MaxOut => Printed = <<ErrorLine("Unexpected token")>>)
               /\ pc' = "loop"]_vars
    /\ [][OnRejectedToken => OnRejectedToken' /\ p' = p]_vars
    /\ (OnRejectedToken /\ pc = "loop") ~> AboutToPrintUnexpected
    /\ (OnRejectedToken /\ pc = "statement") ~> (OnRejectedToken /\ pc = "loop")

\* "5 = 3": statement has been called twice on the leading 5 and Parse is back at
\* the head of its loop, the cursor still on the 5.
C11_Witness ==
    /\ code = Ex53
    /\ pc = "loop"
    /\ out = <<ErrorLine("Unexpected token"), ErrorLine("Unexpected token")>>
    /\ p.pos = 1
    /\ p.current = Token("Number", <<53>>)

----------------------------------------------------------------------------
(* C12 *)

\* The cursor q after one call of advance, written out: the next token, or the
\* sentinel with pos unchanged when there is none.
Advanced(q) ==
    [tokens  |-> q.tokens,
     current |-> IF q.pos + 1 \in 1..Len(q.tokens) THEN q.tokens[q.pos + 1]
                 ELSE Token("Invalid", <<>>),
     pos     |-> IF q.pos + 1 <= Len(q.tokens) THEN q.pos + 1 ELSE q.pos]

\* C12: when a statement starts with an Identifier and the text of the next
\* token is not "=" (also when there is no next token), the call prints
\* "Parse error: Expected '='" and nothing else (no Assign line, no diagnostic
\* of an expression) and returns with the cursor advanced once, past the
\* Identifier: the token that is not "=" is the current token of the next attempt.
C12_ExpectedEquals ==
    [][(/\ pc = "statement"
        /\ p.current.Kind = "Identifier"
        /\ TokAt(p.pos) = p.current
        /\ TokAt(p.pos + 1).Value # <<61>>)
          => /\ Printed = <<ErrorLine("Expected '='")>>
             /\ p' = Advanced(p)
             /\ p'.current = TokAt(p.pos + 1)
             /\ pc' = "loop"]_vars

\* After "Expected '='" for an Identifier followed by a Number, the cursor is on
\* the Number.
C12_Witness ==
    /\ pc = "loop"
    /\ out = <<ErrorLine("Expected '='")>>
    /\ p.pos = 2
    /\ p.tokens[1].Kind = "Identifier"
    /\ p.current = p.tokens[2]
    /\ p.current.Kind = "Number"

----------------------------------------------------------------------------
(* C13 *)

\* The cursors that k = 0, 1, 2 or 3 calls of advance lead to from q.
AfterAdvances(q) ==
    {q, Advanced(q), Advanced(Advanced(q)), Advanced(Advanced(Advanced(q)))}

\* In a step: the cursor is made by NewParser and one advance, or is moved by
\* calls of advance alone.
CursorStep ==
    IF pc \in {"loop", "statement", "done"}
    THEN /\ p' \in AfterAdvances(p)
         /\ p'.pos >= p.pos
         /\ p'.tokens = p.tokens
         /\ p.current.Kind = "Invalid" => p' = p
    ELSE pc' = "loop" => p' = Advanced([tokens |-> rets[1], current |-> p.current, pos |-> 0])

\* C13: in every state of the Parser, 0 <= pos <= len(tokens) and the current
\* token is tokens[pos-1] or the sentinel; each step of Parse changes the cursor
\* by calls of advance only (a call of statement makes at most three), each call
\* raising pos by exactly one or, at the end of the tokens, leaving it; pos never
\* decreases and the tokens never change; and once the current token is the
\* sentinel, pos is len(tokens) and a further advance changes nothing.
C13_CursorMovesByAdvance ==
    /\ [](/\ p.pos \in 0..Len(p.tokens)
          /\ p.current = Token("Invalid", <<>>)
                \/ (p.pos >= 1 /\ p.current = p.tokens[p.pos])
          /\ advance(p) = Advanced(p)
          /\ advance(p).pos \in {p.pos, p.pos + 1}
          /\ (pc \in {"loop", "statement", "done"} /\ p.current.Kind = "Invalid")
                => p.pos = Len(p.tokens) /\ advance(p) = p)
    /\ [][CursorStep]_vars

\* "a=1b=2.5": the first statement has made three calls of advance, from the
\* cursor on a (pos 1) to the cursor on b (pos 4).
C13_Witness ==
    /\ code = ExTwo
    /\ pc = "loop"
    /\ p.pos = 4
    /\ p.current = Token("Identifier", <<98>>)
    /\ Len(out) = 1

----------------------------------------------------------------------------
(* C14 *)

\* C14: every token Lex emits and returns has kind Number, Identifier or
\* Punctuation, never Operator, Keyword or Invalid; so in Parse the current
\* token has kind Invalid only when the token sequence is exhausted: pos is
\* len(tokens) and the current token is the sentinel, none of the tokens.
C14_OnlyThreeKinds ==
    /\ \A i \in 1..Len(l.tokens) :
          l.tokens[i].Kind \in {"Number", "Identifier", "Punctuation"}
    /\ \A r \in 1..Len(rets) : \A i \in 1..Len(rets[r]) :
          rets[r][i].Kind \in {"Number", "Identifier", "Punctuation"}
    /\ (pc \in {"loop", "statement", "done"} /\ p.current.Kind = "Invalid") =>
          /\ p.pos = Len(p.tokens)
          /\ p.current = Token("Invalid", <<>>)
          /\ \A i \in 1..Len(p.tokens) : p.tokens[i] # p.current
    /\ pc = "done" => p.pos = Len(p.tokens)

\* Lex has returned the three tokens of "x+1", one of each kind, and Parse is in
\* its loop on the second of them.
C14_Witness ==
    /\ pc \in {"loop", "statement"}
    /\ code = <<120, 43, 49>>
    /\ Len(rets[1]) = 3
    /\ {rets[1][i].Kind : i \in 1..3} = {"Number", "Identifier", "Punctuation"}
    /\ p.pos = 2

----------------------------------------------------------------------------
(* C15 *)

\* The diagnostic factor prints for a token of kind k that is no Number.
RejectionOf(k) ==
    IF k = "Identifier" THEN ErrorLine("Variable not supported")
    ELSE ErrorLine("Invalid expression")

\* In a step: a statement whose token after "=" is no Number (or is missing)
\* prints one diagnostic of factor and then its Assign line with the value zero,
\* and ends with the cursor on the token after "=".
RejectedFactorStep ==
    (AtAssignment /\ TokAt(p.pos + 2).Kind # "Number") =>
        /\ Printed = <<RejectionOf(TokAt(p.pos + 2).Kind),
                       AssignLine(p.current.Value, Rat(0, 1))>>
        /\ p' = Advanced(Advanced(p))
        /\ p'.current = TokAt(p.pos + 2)
        /\ pc' = "loop"

\* C15: factor, entered on a token that is no Number, prints exactly one
\* diagnostic ("Variable not supported" for an Identifier, "Invalid expression"
\* otherwise, also at the end of the input), returns zero and leaves the cursor
\* unchanged; the enclosing statement still prints its Assign line (value zero),
\* and the next statement attempt starts at the rejected token.
C15_RejectedFactor ==
    /\ [](p.current.Kind # "Number" =>
            factor([p |-> p, out |-> <<>>])
                = [st     |-> [p |-> p, out |-> <<RejectionOf(p.current.Kind)>>],
                   result |-> Rat(0, 1)])
    /\ [][RejectedFactorStep]_vars

\* "x=+" : the statement has printed "Invalid expression" and Assign x = 0, and
\* the cursor is on the "+".
C15_Witness ==
    /\ code = <<120, 61, 43>>
    /\ pc = "loop"
    /\ out = <<ErrorLine("Invalid expression"), AssignLine(<<120>>, Rat(0, 1))>>
    /\ p.current = Token("Punctuation", <<43>>)
    /\ p.pos = 3

----------------------------------------------------------------------------
(* C16 *)

\* text holds more than one '.'.
SeveralDots(text) == Cardinality({i \in 1..Len(text) : text[i] = 46}) > 1

\* In a step: a statement whose token after "=" is a Number with several '.'
\* prints its Assign line with the value zero and nothing else, and ends with
\* the cursor past the Number.
BadNumeralStep ==
    (/\ AtAssignment
     /\ TokAt(p.pos + 2).Kind = "Number"
     /\ SeveralDots(TokAt(p.pos + 2).Value)) =>
        /\ Printed = <<AssignLine(p.current.Value, Rat(0, 1))>>
        /\ p' = Advanced(Advanced(Advanced(p)))
        /\ p'.current = TokAt(p.pos + 3)

\* C16: factor, entered on a Number token whose text holds more than one '.'
\* (such as "1.2.3"), gives the value zero, prints no diagnostic and advances
\* past the token as for a valid numeral: the statement prints its Assign line
\* with the value zero.
C16_BadNumeralIsZero ==
    /\ [](p.current.Kind = "Number" /\ SeveralDots(p.current.Value) =>
            factor([p |-> p, out |-> <<>>])
                = [st     |-> [p |-> Advanced(p), out |-> <<>>],
                   result |-> Rat(0, 1)])
    /\ [][BadNumeralStep]_vars

\* "q=1.2.3" has been parsed: Assign q = 0 and nothing else.
C16_Witness ==
    /\ code = ExBadNum
    /\ pc = "done"
    /\ out = <<AssignLine(<<113>>, Rat(0, 1))>>
    /\ p.tokens[3] = Token("Number", ExDots)

----------------------------------------------------------------------------
(* C17 *)

\* In a step that is a call of statement: one Assign line, naming the
\* Identifier the attempt starts on and printed last, when that Identifier is
\* followed by "="; no Assign line otherwise.
AssignLineStep ==
    pc = "statement" =>
        IF p.current.Kind = "Identifier" /\ TokAt(p.pos + 1).Value = <<61>>
        THEN /\ Len(LinesOfKind(Printed, "Assign")) = 1
             /\ Printed[Len(Printed)].kind = "Assign"
             /\ Printed[Len(Printed)].identifier = p.current.Value
             /\ Len(Printed) <= 2
        ELSE LinesOfKind(Printed, "Assign") = <<>>

\* C17: an Assign line is printed exactly once for each statement attempt that
\* starts on an Identifier followed by a token with the text "=", and for no
\* other attempt, whether or not the expression printed a diagnostic or is
\* missing; the line names the Identifier the attempt starts on, and a
\* diagnostic of the expression comes before it.
C17_AssignOncePerAssignment ==
    /\ [](pc = "statement" => TokAt(p.pos) = p.current)
    /\ [][AssignLineStep]_vars

\* "z = w": the first statement has printed "Variable not supported" and then
\* Assign z = 0.
C17_Witness ==
    /\ code = ExZW
    /\ pc = "loop"
    /\ out = <<ErrorLine("Variable not supported"), AssignLine(<<122>>, Rat(0, 1))>>

----------------------------------------------------------------------------
(* C18 *)

\* The 1-based index of the attempt that follows the attempt at index i of t.
NextAttempt(t, i) ==
    IF i + 1 > Len(t) \/ t[i + 1].Value # <<61>> THEN i + 1
    ELSE IF i + 2 <= Len(t) /\ t[i + 2].Kind = "Number" THEN i + 3
    ELSE i + 2

\* Every attempt from index i of t on starts on an Identifier.
RECURSIVE AttemptsOnIdentifiers(_, _)
AttemptsOnIdentifiers(t, i) ==
    IF i > Len(t) THEN TRUE
    ELSE IF t[i].Kind # "Identifier" THEN FALSE
    ELSE AttemptsOnIdentifiers(t, NextAttempt(t, i))

\* In a step: a statement whose Number is followed by a Number or a Punctuation
\* token prints its Assign line and leaves the cursor on that token.
NumberThenRejectedStep ==
    (/\ AtAssignment
     /\ TokAt(p.pos + 2).Kind = "Number"
     /\ TokAt(p.pos + 3).Kind \in {"Number", "Punctuation"}) =>
        /\ Printed # <<>>
        /\ Printed[Len(Printed)].kind = "Assign"
        /\ OnRejectedToken'
        /\ ~AttemptsOnIdentifiers(p.tokens, 1)

\* C18: Parse on a token sequence t from Lex returns if and only if every
\* statement attempt starts on an Identifier, the attempts starting at the
\* first token and following one another as NextAttempt says; an input in which
\* the Number of a statement is followed by a Number or a Punctuation token
\* prints that statement's Assign line and then never returns.
C18_TerminatesIffAttemptsOnIdentifiers ==
    /\ (pc = "Lexed" /\ AttemptsOnIdentifiers(rets[1], 1)) ~> (pc = "done")
    /\ [](pc = "done" => AttemptsOnIdentifiers(p.tokens, 1))
    /\ [](pc \in {"loop", "statement"} =>
            /\ p.current.Kind # "Invalid" => TokAt(p.pos) = p.current
            /\ AttemptsOnIdentifiers(p.tokens, 1)
                 = AttemptsOnIdentifiers(p.tokens,
                      IF p.current.Kind = "Invalid" THEN Len(p.tokens) + 1 ELSE p.pos))
    /\ [][NumberThenRejectedStep]_vars
    /\ [][OnRejectedToken => pc' # "done"]_vars

\* "x x" has been parsed to its end: two attempts, each on an Identifier that no
\* "=" follows.
C18_Witness ==
    /\ code = <<120, 32, 120>>
    /\ pc = "done"
    /\ out = <<ErrorLine("Expected '='"), ErrorLine("Expected '='")>>

====
